---- MODULE Spec2Model ----
(***************************************************************************)
(* A model of src/index.ts: the module-level logging state and the single  *)
(* asynchronous function main(), one action per statement group of main(). *)
(* Every call into a library or the operating system either returns or     *)
(* throws; main() has no try/catch and is invoked as a bare `main();`, so  *)
(* a throw rejects main's promise and nothing after it runs.               *)
(*                                                                         *)
(* The libraries themselves (axios, cheerio loader, text splitter,         *)
(* HNSWLib, OpenAI clients) are not part of the repository. Only what      *)
(* index.ts hands to them and takes from them is modelled; the values they *)
(* return are chosen nondeterministically from small sets.                 *)
(***************************************************************************)
EXTENDS Naturals, Sequences, FiniteSets

\* Largest number of <li> blocks a page holds.
MaxItems == 2
\* Largest number of chunks the splitter returns for one loaded document.
MaxChunksPerDoc == 2
\* Number of distinct contents the remote page takes during a run.
MaxPageVersions == 2

VARIABLES
    pc,                 \* position in main(): the statement group to run next
    error,              \* "none", or the statement group whose call threw
    stages,             \* history: statement groups completed, in order
    currentStep,        \* index.ts:26  let currentStep = 1
    log,                \* console output of logTimeWriteOutStep, in order
    page,               \* what the server at config.domain serves right now
    fetchCount,         \* history: GET requests sent to config.domain
    response,           \* index.ts:55  const response
    cacheDir,           \* does <base>/cache exist
    recordDir,          \* does <base>/record exist
    cacheFile,          \* this run's <time>-response.html
    recordFile,         \* this run's <time>-record.txt
    loadedData,         \* index.ts:78
    splitDocs,          \* index.ts:86
    docs,               \* index.ts:90
    vectorStore,        \* index.ts:96
    fromDocumentsCalls, \* history: invocations of HNSWLib.fromDocuments
    chainCalls,         \* history: invocations of chain.call
    retrieverReads,     \* history: reads of vectorStore through the retriever
    resp,               \* index.ts:107
    cancelRequested,    \* an external cancellation signal has been raised
    cancelAt            \* history: statement groups begun when it was raised

runVars  == <<pc, error, stages>>
logVars  == <<currentStep, log>>
netVars  == <<page, fetchCount, response>>
fsVars   == <<cacheDir, recordDir, cacheFile, recordFile>>
dataVars == <<loadedData, splitDocs, docs>>
ragVars  == <<vectorStore, fromDocumentsCalls, chainCalls, retrieverReads, resp>>
envVars  == <<cancelRequested, cancelAt>>

vars == <<pc, error, stages, currentStep, log, page, fetchCount, response,
          cacheDir, recordDir, cacheFile, recordFile, loadedData, splitDocs,
          docs, vectorStore, fromDocumentsCalls, chainCalls, retrieverReads,
          resp, cancelRequested, cancelAt>>

NoPage == [ver |-> 0, nLi |-> 0]

FileStates == {"absent", "partial", "complete"}

Running == pc \notin {"Done", "Failed"}

\* Statement groups begun so far: the completed ones and the one that threw.
Started == Len(stages) + (IF error = "none" THEN 0 ELSE 1)

Completed(stmt) == \E i \in DOMAIN stages : stages[i] = stmt

(***************************************************************************)
(* Sequential control flow of main(): the statement group that follows p.  *)
(***************************************************************************)
NextStmtSwapped(p) ==
    CASE p = "start"      -> "embeddings"
      [] p = "embeddings" -> "fetch"
      [] p = "fetch"      -> "dirs"
      [] p = "dirs"       -> "cache"
      [] p = "cache"      -> "load"
      [] p = "load"       -> "split"
      [] p = "split"      -> "docs"
      [] p = "docs"       -> "index"
      [] p = "index"      -> "record"
      [] p = "record"     -> "chain"
      [] p = "chain"      -> "call"
      [] p = "call"       -> "finish"
      [] OTHER            -> "Done"

NextStmt(p) ==
    CASE p = "start"      -> "embeddings"
      [] p = "embeddings" -> "fetch"
      [] p = "fetch"      -> "dirs"
      [] p = "dirs"       -> "cache"
      [] p = "cache"      -> "load"
      [] p = "load"       -> "split"
      [] p = "split"      -> "docs"
      [] p = "docs"       -> "index"
      [] p = "index"      -> "chain"
      [] p = "chain"      -> "call"
      [] p = "call"       -> "record"
      [] p = "record"     -> "finish"
      [] OTHER            -> "Done"

\* The statement group at pc returned normally.
Return == /\ pc' = NextStmt(pc)
          /\ stages' = Append(stages, pc)
          /\ error' = error

(***************************************************************************)
(* A call threw. main() catches nothing and `main();` attaches no handler: *)
(* the rejection ends the run.                                             *)
(***************************************************************************)
ThrowSwallowed(stmt) ==
    /\ error' = stmt
    /\ pc' = NextStmt(pc)
    /\ stages' = stages

Throw(stmt) ==
    /\ error' = stmt
    /\ pc' = "Failed"
    /\ stages' = stages

(***************************************************************************)
(* logTimeWriteOutStep: prints "[<elapsed>s] Step <currentStep>: <message>"*)
(* and increments currentStep. The elapsed time is wall-clock and is left  *)
(* out of the entry.                                                       *)
(***************************************************************************)
logTimeWriteOutStepNoIncrement(message) ==
    /\ log' = Append(log, [step |-> currentStep, message |-> message])
    /\ currentStep' = currentStep

logTimeWriteOutStep(message) ==
    /\ log' = Append(log, [step |-> currentStep, message |-> message])
    /\ currentStep' = currentStep + 1

Init ==
    /\ pc = "start"
    /\ error = "none"
    /\ stages = <<>>
    /\ currentStep = 1
    /\ log = <<>>
    /\ page \in [ver : {1}, nLi : 0..MaxItems]
    /\ fetchCount = 0
    /\ response = [data |-> NoPage]
    /\ cacheDir \in BOOLEAN
    /\ recordDir \in BOOLEAN
    /\ cacheFile = "absent"
    /\ recordFile = "absent"
    /\ loadedData = <<>>
    /\ splitDocs = <<>>
    /\ docs = <<>>
    /\ vectorStore = [built |-> FALSE, docs |-> <<>>]
    /\ fromDocumentsCalls = 0
    /\ chainCalls = 0
    /\ retrieverReads = 0
    /\ resp = [text |-> "none"]
    /\ cancelRequested = FALSE
    /\ cancelAt = 0

(***************************************************************************)
(* index.ts:45  first statement of main().                                 *)
(***************************************************************************)
Start ==
    /\ pc = "start"
    /\ logTimeWriteOutStep("main start")
    /\ Return
    /\ UNCHANGED <<netVars, fsVars, dataVars, ragVars, envVars>>

(***************************************************************************)
(* index.ts:48-52  new OpenAIEmbeddings({openAIApiKey, batchSize: 512}).   *)
(***************************************************************************)
DeclareEmbeddings ==
    /\ pc = "embeddings"
    /\ \/ logTimeWriteOutStep("embeddings declared") /\ Return
       \/ Throw("embeddings") /\ UNCHANGED logVars
    /\ UNCHANGED <<netVars, fsVars, dataVars, ragVars, envVars>>

(***************************************************************************)
(* index.ts:55-56  const response = await axios.get(config.domain).        *)
(* The request is sent whether or not it then succeeds.                    *)
(***************************************************************************)
Fetch ==
    /\ pc = "fetch"
    /\ fetchCount' = fetchCount + 1
    /\ page' = page
    /\ \/ /\ response' = [data |-> page]
          /\ logTimeWriteOutStep("html fetched")
          /\ Return
       \/ /\ response' = response
          /\ Throw("fetch")
          /\ UNCHANGED logVars
    /\ UNCHANGED <<fsVars, dataVars, ragVars, envVars>>

(***************************************************************************)
(* index.ts:59-69  create cache/ and record/ when they do not exist.       *)
(* mkdirSync(cacheDir) runs first; if it throws, record/ is not reached.   *)
(***************************************************************************)
MakeDirs ==
    /\ pc = "dirs"
    /\ \/ /\ cacheDir' = TRUE
          /\ recordDir' = TRUE
          /\ logTimeWriteOutStep("directories ready")
          /\ Return
       \/ /\ ~cacheDir
          /\ UNCHANGED <<cacheDir, recordDir, logVars>>
          /\ Throw("dirs")
       \/ /\ ~recordDir
          /\ cacheDir' = TRUE
          /\ UNCHANGED <<recordDir, logVars>>
          /\ Throw("dirs")
    /\ UNCHANGED <<cacheFile, recordFile, netVars, dataVars, ragVars, envVars>>

(***************************************************************************)
(* index.ts:72-74  fs.writeFileSync(filePath, response.data).              *)
(* A write that throws leaves no file or an incomplete one.                *)
(***************************************************************************)
WriteCache ==
    /\ pc = "cache"
    /\ \/ /\ cacheFile' = "complete"
          /\ logTimeWriteOutStep("response.html saved")
          /\ Return
       \/ /\ cacheFile' \in {"absent", "partial"}
          /\ Throw("cache")
          /\ UNCHANGED logVars
    /\ UNCHANGED <<cacheDir, recordDir, recordFile, netVars, dataVars, ragVars,
                   envVars>>

(***************************************************************************)
(* index.ts:77-78  new CheerioWebBaseLoader(config.domain, {selector:"li"})*)
(* and await loader.load(). The loader is given the URL and nothing of     *)
(* `response`: it requests config.domain itself and extracts the <li>      *)
(* blocks of what the server serves at that moment. No log entry follows.  *)
(***************************************************************************)
LoadedFrom(p) ==
    [i \in 1..p.nLi |->
        [pageContent |-> [ver |-> p.ver, li |-> i, part |-> 0],
         metadata    |-> [source |-> "config.domain"]]]

Load ==
    /\ pc = "load"
    /\ fetchCount' = fetchCount + 1
    /\ UNCHANGED <<page, response>>
    /\ \/ /\ loadedData' = LoadedFrom(page)
          /\ Return
       \/ /\ loadedData' = loadedData
          /\ Throw("load")
    /\ UNCHANGED <<splitDocs, docs, logVars, fsVars, ragVars, envVars>>

(***************************************************************************)
(* index.ts:81-87  RecursiveCharacterTextSplitter({chunkSize: 2000,        *)
(* chunkOverlap: 100}).splitDocuments(loadedData). The splitter is library *)
(* code: each loaded document yields some number n[i] of chunks, in        *)
(* document order, each carrying the document's metadata.                  *)
(***************************************************************************)
ChunksOf(doc, k) ==
    [j \in 1..k |->
        [pageContent |-> [ver  |-> doc.pageContent.ver,
                          li   |-> doc.pageContent.li,
                          part |-> j],
         metadata    |-> doc.metadata]]

RECURSIVE SplitDocuments(_, _)
SplitDocuments(ld, n) ==
    IF ld = <<>> THEN <<>>
    ELSE ChunksOf(Head(ld), n[1])
         \o SplitDocuments(Tail(ld), [i \in 1..(Len(ld) - 1) |-> n[i + 1]])

Split ==
    /\ pc = "split"
    /\ \/ /\ \E n \in [1..Len(loadedData) -> 0..MaxChunksPerDoc] :
                splitDocs' = SplitDocuments(loadedData, n)
          /\ logTimeWriteOutStep("documents split")
          /\ Return
       \/ /\ splitDocs' = splitDocs
          /\ Throw("split")
          /\ UNCHANGED logVars
    /\ UNCHANGED <<loadedData, docs, netVars, fsVars, ragVars, envVars>>

(***************************************************************************)
(* index.ts:90-93  docs = splitDocs.map(item => new Document({pageContent: *)
(* item.pageContent, metadata: item.metadata})).                           *)
(***************************************************************************)
MapToDocumentsDropLast(sd) ==
    [i \in 1..(IF Len(sd) = 0 THEN 0 ELSE Len(sd) - 1) |->
        [pageContent |-> sd[i].pageContent, metadata |-> sd[i].metadata]]

MapToDocuments(sd) ==
    [i \in 1..Len(sd) |->
        [pageContent |-> sd[i].pageContent, metadata |-> sd[i].metadata]]

ToDocs ==
    /\ pc = "docs"
    /\ docs' = MapToDocuments(splitDocs)
    /\ logTimeWriteOutStep("converted to Document")
    /\ Return
    /\ UNCHANGED <<loadedData, splitDocs, netVars, fsVars, ragVars, envVars>>

(***************************************************************************)
(* index.ts:96-97  vectorStore = await HNSWLib.fromDocuments(docs,         *)
(* embeddings). The call is made with whatever docs holds, the empty list  *)
(* included: nothing in main() tests docs.length.                          *)
(***************************************************************************)
BuildIndex ==
    /\ pc = "index"
    /\ fromDocumentsCalls' = fromDocumentsCalls + 1
    /\ \/ /\ vectorStore' = [built |-> TRUE, docs |-> docs]
          /\ logTimeWriteOutStep("vector store created")
          /\ Return
       \/ /\ vectorStore' = vectorStore
          /\ Throw("index")
          /\ UNCHANGED logVars
    /\ UNCHANGED <<chainCalls, retrieverReads, resp, netVars, fsVars, dataVars,
                   envVars>>

(***************************************************************************)
(* index.ts:100-104  new ChatOpenAI(...), RetrievalQAChain.fromLLM(model,  *)
(* vectorStore.asRetriever(), ...). The retriever wraps the store; nothing *)
(* is read or written yet.                                                 *)
(***************************************************************************)
PrepareChain ==
    /\ pc = "chain"
    /\ \/ logTimeWriteOutStep("QA chain ready") /\ Return
       \/ Throw("chain") /\ UNCHANGED logVars
    /\ UNCHANGED <<netVars, fsVars, dataVars, ragVars, envVars>>

(***************************************************************************)
(* index.ts:107-108  resp = await chain.call({query: config.query}).       *)
(* The chain queries the store through the retriever and asks the model.   *)
(* When the call throws, the retriever may or may not have been reached.   *)
(***************************************************************************)
CallChain ==
    /\ pc = "call"
    /\ chainCalls' = chainCalls + 1
    /\ \/ /\ retrieverReads' = retrieverReads + 1
          /\ resp' = [text |-> "summary"]
          /\ logTimeWriteOutStep("QA answer")
          /\ Return
       \/ /\ retrieverReads' \in {retrieverReads, retrieverReads + 1}
          /\ resp' = resp
          /\ Throw("call")
          /\ UNCHANGED logVars
    /\ UNCHANGED <<vectorStore, fromDocumentsCalls, netVars, fsVars, dataVars,
                   envVars>>

(***************************************************************************)
(* index.ts:111-113  fs.writeFileSync(filePath2, resp.text).               *)
(***************************************************************************)
WriteRecord ==
    /\ pc = "record"
    /\ \/ /\ recordFile' = "complete"
          /\ logTimeWriteOutStep("summary saved")
          /\ Return
       \/ /\ recordFile' \in {"absent", "partial"}
          /\ Throw("record")
          /\ UNCHANGED logVars
    /\ UNCHANGED <<cacheDir, recordDir, cacheFile, netVars, dataVars, ragVars,
                   envVars>>

(***************************************************************************)
(* index.ts:116  last statement of main().                                 *)
(***************************************************************************)
Finish ==
    /\ pc = "finish"
    /\ logTimeWriteOutStep("run complete")
    /\ Return
    /\ UNCHANGED <<netVars, fsVars, dataVars, ragVars, envVars>>

(***************************************************************************)
(* Environment: the news listing at config.domain changes while the run is *)
(* in progress.                                                            *)
(***************************************************************************)
PageChange ==
    /\ Running
    /\ page.ver < MaxPageVersions
    /\ \E n \in 0..MaxItems : page' = [ver |-> page.ver + 1, nLi |-> n]
    /\ UNCHANGED <<fetchCount, response, runVars, logVars, fsVars, dataVars,
                   ragVars, envVars>>

(***************************************************************************)
(* Environment: an external cancellation signal is raised. main() takes no *)
(* token and registers no handler, so no action of main() reads            *)
(* cancelRequested.                                                        *)
(***************************************************************************)
CancelSignal ==
    /\ Running
    /\ ~cancelRequested
    /\ cancelRequested' = TRUE
    /\ cancelAt' = Started
    /\ UNCHANGED <<runVars, logVars, netVars, fsVars, dataVars, ragVars>>

Next ==
    \/ Start
    \/ DeclareEmbeddings
    \/ Fetch
    \/ MakeDirs
    \/ WriteCache
    \/ Load
    \/ Split
    \/ ToDocs
    \/ BuildIndex
    \/ PrepareChain
    \/ CallChain
    \/ WriteRecord
    \/ Finish
    \/ PageChange
    \/ CancelSignal

Spec == Init /\ [][Next]_vars

TypeOK ==
    /\ pc \in {"start", "embeddings", "fetch", "dirs", "cache", "load", "split",
               "docs", "index", "chain", "call", "record", "finish", "Done",
               "Failed"}
    /\ currentStep \in Nat
    /\ fetchCount \in 0..2
    /\ cacheDir \in BOOLEAN /\ recordDir \in BOOLEAN
    /\ cacheFile \in FileStates /\ recordFile \in FileStates
    /\ vectorStore.built \in BOOLEAN
    /\ cancelRequested \in BOOLEAN

(***************************************************************************)
(*                              Properties                                 *)
(***************************************************************************)

\* The statement groups of main() in the order the properties expect them.
ExpectedOrder ==
    <<"start", "embeddings", "fetch", "dirs", "cache", "load", "split", "docs",
      "index", "chain", "call", "record", "finish">>

Pos(stmt) == CHOOSE i \in DOMAIN ExpectedOrder : ExpectedOrder[i] = stmt

StagesArePrefix ==
    /\ Len(stages) <= Len(ExpectedOrder)
    /\ \A i \in DOMAIN stages : stages[i] = ExpectedOrder[i]
    /\ (pc = "Done" => stages = ExpectedOrder)

(***************************************************************************)
(* C1, as amended. The calls main() makes are completed in one fixed       *)
(* order, each at most once: start, embeddings (Init), axios.get (Fetch),  *)
(* directory creation and the raw-HTML cache write, loader.load (Extract), *)
(* splitDocuments and the Document mapping (Chunk), fromDocuments          *)
(* (Embed+Index), chain set-up and chain.call (Retrieve and Summarize),    *)
(* the record write (Persist of the answer), end. A run that reaches Done  *)
(* has completed all of them. The record file is written only after        *)
(* chain.call has completed; the cache file is written after Fetch and     *)
(* before Extract.                                                         *)
(***************************************************************************)
C1_StagesInCodeOrder ==
    /\ StagesArePrefix
    /\ (recordFile # "absent" => Completed("call"))
    /\ (cacheFile # "absent" => Completed("fetch") /\ Completed("dirs"))
    /\ (Completed("load") => cacheFile = "complete")

\* C1 witness: a complete run, every statement group done once, both files written.
C1_Witness ==
    /\ pc = "Done"
    /\ Len(stages) = Len(ExpectedOrder)
    /\ cacheFile = "complete"
    /\ recordFile = "complete"

(***************************************************************************)
(* C1 as stated: the same order, and in addition no write to disk (a       *)
(* Persist action) happens before Extract, Chunk, Embed+Index, Retrieve    *)
(* and Summarize have completed.                                           *)
(***************************************************************************)
C1_NoPersistBeforeSummarize ==
    /\ StagesArePrefix
    /\ (recordFile # "absent" => Completed("call"))
    /\ (cacheFile # "absent" => Completed("call"))

C3_EmptyChunksStopBeforeIndex ==
    (Completed("split") /\ splitDocs = <<>>) =>
        /\ fromDocumentsCalls = 0
        /\ chainCalls = 0
        /\ pc \notin {"chain", "call", "record", "finish", "Done"}

(***************************************************************************)
(* C4. HNSWLib.fromDocuments is invoked at most once in a run and exactly  *)
(* once in a run that got past it; the store it returned holds, in every   *)
(* later state, exactly the chunks splitDocuments produced, in order and   *)
(* with their metadata; and the retriever reads the store only after it    *)
(* has been built.                                                         *)
(***************************************************************************)
C4_IndexBuiltOnceReadOnly ==
    /\ fromDocumentsCalls <= 1
    /\ (Completed("index") => fromDocumentsCalls = 1 /\ vectorStore.built)
    /\ (vectorStore.built =>
            /\ Completed("split")
            /\ Len(vectorStore.docs) = Len(splitDocs)
            /\ \A i \in DOMAIN splitDocs :
                  /\ vectorStore.docs[i].pageContent = splitDocs[i].pageContent
                  /\ vectorStore.docs[i].metadata = splitDocs[i].metadata)
    /\ (~vectorStore.built => vectorStore.docs = <<>>)
    /\ (retrieverReads > 0 => vectorStore.built)

\* C4 witness: a finished run whose store of two or more chunks has been read.
C4_Witness ==
    /\ pc = "Done"
    /\ vectorStore.built
    /\ Len(vectorStore.docs) >= 2
    /\ retrieverReads = 1

(***************************************************************************)
(* C5 as stated. After a cancellation signal at most the statement group   *)
(* in flight finishes and no further one is begun; and if the signal came  *)
(* before chain.call was begun, no record file is written.                 *)
(***************************************************************************)
C5_CancelStopsRun ==
    cancelRequested =>
        /\ Started <= cancelAt + 1
        /\ (cancelAt < Pos("call") => recordFile = "absent")

(***************************************************************************)
(* C9 as stated. config.domain is requested at most once in a run, and the *)
(* loaded documents are the <li> blocks of the body axios.get returned.    *)
(***************************************************************************)
C9_ExtractFromFetchedBody ==
    /\ fetchCount <= 1
    /\ (Completed("load") => loadedData = LoadedFrom(response.data))

(***************************************************************************)
(* C10. The n-th log entry carries step number n, in failed runs too:      *)
(* currentStep is always one more than the number of entries logged, and a *)
(* run that reaches the end of main() has logged exactly 12 entries, the   *)
(* last numbered 12.                                                       *)
(***************************************************************************)
C10_LogStepsConsecutive ==
    /\ \A i \in DOMAIN log : log[i].step = i
    /\ currentStep = Len(log) + 1
    /\ (pc = "Done" => Len(log) = 12 /\ log[Len(log)].step = 12)
    /\ (pc = "Failed" => Len(log) < 12)

\* C10 witness: the end of main() reached with twelve entries logged.
C10_Witness ==
    /\ pc = "Done"
    /\ Len(log) = 12
    /\ log[12].message = "run complete"

====
